---- MODULE Spec2Model ----
(***************************************************************************)
(* SafeList<T> (safelist.h): a std::list<T> guarded by one recursive       *)
(* pthread mutex.  Each thread executes the public operations statement by *)
(* statement; the program counter labels carry the source line numbers.    *)
(***************************************************************************)
EXTENDS Integers, Sequences, FiniteSets, TLC

\* ----------------------------------------------------------------- bounds
NThreads == 2
MaxVal == 1
MaxOps == 4

Threads == 1..NThreads
NoThread == 0
\* T is a type that NULL converts to (line 251); NULL is its zero value.
NULL == 0
Values == NULL..MaxVal

VARIABLES
    items,        \* the list<T> base object, front first
    safelist_mutex, \* [owner, count] of the pthread mutex (line 164)
    pc,           \* per thread: the statement it executes next
    arg,          \* per thread: the argument of push_back / remove
    itr,          \* per thread: the iterator local (position in items)
    ret_val,      \* per thread: pop_front's ret_val local / returned value
    size,         \* per thread: size()'s local / returned value
    is_empty,     \* per thread: the value empty() returned
    present,      \* per thread: pop_front took the non-empty branch
    entry,        \* per thread: hold count when the operation was entered
    seen,         \* per thread: the elements passed to the visitor, in order
    snap,         \* per thread: items when visit_all acquired the lock
    stopped,      \* per thread: the visitor returned false
    threw,        \* per thread: the visitor threw out of visit_all
    pushLog,      \* history: [thread, val] of every list<T>::push_back
    popLog,       \* history: [thread, val, present] of every pop_front
    nRemoved,     \* history: number of elements deleted by remove
    done,         \* the operation that returned last, with what it returned
    recording,    \* whether the history variables are kept
    nOps          \* number of operations invoked so far

vars == <<items, safelist_mutex, pc, arg, itr, ret_val, size, is_empty,
          present, entry, seen, snap, stopped, threw, pushLog, popLog,
          nRemoved, done, recording, nOps>>

locals == <<arg, itr, ret_val, size, is_empty, present, entry, seen, snap,
            stopped, threw>>
history == <<pushLog, popLog, nRemoved, recording>>

\* ------------------------------------------------------------ the mutex
\* Mutant of MutexType: the default, non-recursive mutex.
MutexTypeNormal == "PTHREAD_MUTEX_NORMAL"

\* MutexInit (lines 202-214) creates the mutex with this type.
MutexType == "PTHREAD_MUTEX_RECURSIVE"

FreeMutex == [owner |-> NoThread, count |-> 0]

HoldCount(t) == IF safelist_mutex.owner = t THEN safelist_mutex.count ELSE 0

\* Mutant of Lock: a mutex that its owner cannot lock again.
LockNotRecursive(t) ==
    /\ safelist_mutex.owner = NoThread
    /\ safelist_mutex' = [owner |-> t, count |-> 1]

\* pthread_mutex_lock blocks while another thread owns the mutex; a
\* recursive mutex lets its owner lock it again and counts.
Lock(t) ==
    /\ \/ safelist_mutex.owner = NoThread
       \/ safelist_mutex.owner = t /\ MutexType = "PTHREAD_MUTEX_RECURSIVE"
    /\ safelist_mutex' = [owner |-> t, count |-> safelist_mutex.count + 1]

\* Mutant of Unlock: one unlock releases the mutex whatever its count.
UnlockNotCounting(t) ==
    safelist_mutex' =
        IF safelist_mutex.owner # t THEN safelist_mutex ELSE FreeMutex

\* pthread_mutex_unlock of a recursive mutex: EPERM (no change) unless the
\* caller owns it; the mutex is free when the count drops to zero.
Unlock(t) ==
    safelist_mutex' =
        IF safelist_mutex.owner # t THEN safelist_mutex
        ELSE IF safelist_mutex.count = 1 THEN FreeMutex
        ELSE [owner |-> t, count |-> safelist_mutex.count - 1]

\* --------------------------------------------------- std::list<T> base
\* Mutant of list_push_back: the element goes to the front.
list_push_front(s, v) == <<v>> \o s

list_push_back(s, v) == Append(s, v)

ValidItr(s, i) == i \in 1..Len(s)

DropAt(s, i) == SubSeq(s, 1, i - 1) \o SubSeq(s, i + 1, Len(s))

\* Mutant of list_erase: nothing is erased.
list_erase_nothing(s, i) == {s}

\* list<T>::erase(itr).  Erasing through an iterator that designates no
\* element is undefined: any single deletion, or none, may result.
list_erase(s, i) ==
    IF ValidItr(s, i) THEN {DropAt(s, i)}
    ELSE {s} \cup {DropAt(s, j) : j \in 1..Len(s)}

\* *itr.  Dereferencing an iterator that designates no element is
\* undefined: any value may be read.
Deref(s, i) == IF ValidItr(s, i) THEN {s[i]} ELSE Values

\* Mutant of list_remove: only the first match is removed.
RECURSIVE list_remove_first(_, _)
list_remove_first(s, v) ==
    IF s = <<>> THEN <<>>
    ELSE IF Head(s) = v THEN Tail(s)
    ELSE <<Head(s)>> \o list_remove_first(Tail(s), v)

RECURSIVE list_remove(_, _)
list_remove(s, v) ==
    IF s = <<>> THEN <<>>
    ELSE IF Head(s) = v THEN list_remove(Tail(s), v)
    ELSE <<Head(s)>> \o list_remove(Tail(s), v)

\* The statements that write the list<T> base.
MutatePcs == {"push_267", "pop_257", "remove_285"}

\* The statements that read or write the list<T> base.
AccessPcs == MutatePcs \cup
    {"empty_244", "pop_253", "begin_84", "pop_256", "size_276",
     "visit_50_init", "visit_50", "visit_52"}

\* What the list can be once thread u has executed the statement it is at
\* (the list itself unless the statement writes it).
AfterWrite(u) ==
    CASE pc[u] = "push_267" -> {list_push_back(items, arg[u])}
      [] pc[u] = "pop_257" -> list_erase(items, itr[u])
      [] pc[u] = "remove_285" -> {list_remove(items, arg[u])}
      [] OTHER -> {items}

\* Mutant of list_empty: true while the list has elements.
list_not_empty(t) == {items # <<>>}

\* list<T>::empty() as thread t reads it.  A read that is concurrent with
\* another thread's write of the list is a data race: its value is
\* unconstrained.
list_empty(t) ==
    IF \E u \in Threads \ {t} : AfterWrite(u) # {items}
    THEN BOOLEAN
    ELSE {items = <<>>}

Goto(t, l) == pc' = [pc EXCEPT ![t] = l]

\* ----------------------------------------------------------------- Init
NoneDone ==
    [thread |-> NoThread, op |-> "none", ret_val |-> NULL, size |-> 0,
     is_empty |-> FALSE, present |-> FALSE, entry |-> 0, hold |-> 0,
     stopped |-> FALSE, threw |-> FALSE]

\* SafeList<T>::SafeList() (lines 167-174): an empty list, a free mutex.
Constructed ==
    /\ items = <<>>
    /\ safelist_mutex = FreeMutex
    /\ pc = [t \in Threads |-> "idle"]
    /\ arg = [t \in Threads |-> NULL]
    /\ itr = [t \in Threads |-> 0]
    /\ ret_val = [t \in Threads |-> NULL]
    /\ size = [t \in Threads |-> 0]
    /\ is_empty = [t \in Threads |-> FALSE]
    /\ present = [t \in Threads |-> FALSE]
    /\ entry = [t \in Threads |-> 0]
    /\ seen = [t \in Threads |-> <<>>]
    /\ snap = [t \in Threads |-> <<>>]
    /\ stopped = [t \in Threads |-> FALSE]
    /\ threw = [t \in Threads |-> FALSE]
    /\ pushLog = <<>>
    /\ popLog = <<>>
    /\ nRemoved = 0
    /\ done = NoneDone
    /\ nOps = 0

Init == Constructed /\ recording = FALSE

InitRecording == Constructed /\ recording = TRUE

\* ------------------------------------------------- invocation and return
\* Thread t calls a public operation with argument v and is at its first
\* statement l; ret_val and size start as NULL and 0 (lines 251, 274).
Call(t, v, l) ==
    /\ pc[t] = "idle"
    /\ nOps < MaxOps
    /\ nOps' = nOps + 1
    /\ Goto(t, l)
    /\ arg' = [arg EXCEPT ![t] = v]
    /\ entry' = [entry EXCEPT ![t] = HoldCount(t)]
    /\ UNCHANGED <<items, safelist_mutex, itr, ret_val, size, is_empty,
                   present, seen, snap, stopped, threw, history, done>>

\* What operation o of thread t hands back to its caller.
Result(t, o) ==
    [thread |-> t, op |-> o, ret_val |-> ret_val[t], size |-> size[t],
     is_empty |-> is_empty[t], present |-> present[t], entry |-> entry[t],
     hold |-> HoldCount(t), stopped |-> stopped[t], threw |-> threw[t]]

\* The operation of thread t ends with result r; its locals die.
Return(t, r) ==
    /\ Goto(t, "idle")
    /\ done' = r
    /\ arg' = [arg EXCEPT ![t] = NULL]
    /\ itr' = [itr EXCEPT ![t] = 0]
    /\ ret_val' = [ret_val EXCEPT ![t] = NULL]
    /\ size' = [size EXCEPT ![t] = 0]
    /\ is_empty' = [is_empty EXCEPT ![t] = FALSE]
    /\ present' = [present EXCEPT ![t] = FALSE]
    /\ entry' = [entry EXCEPT ![t] = 0]
    /\ seen' = [seen EXCEPT ![t] = <<>>]
    /\ snap' = [snap EXCEPT ![t] = <<>>]
    /\ stopped' = [stopped EXCEPT ![t] = FALSE]
    /\ threw' = [threw EXCEPT ![t] = FALSE]

\* Unlock() as the last statement of operation o, then return.
UnlockReturn(t, o) ==
    /\ Unlock(t)
    /\ Return(t, [Result(t, o) EXCEPT
                    !.hold = IF safelist_mutex'.owner = t
                             THEN safelist_mutex'.count ELSE 0])
    /\ UNCHANGED <<items, history, nOps>>

\* Lock() as a statement of its own, then on to statement l.
LockGoto(t, l) ==
    /\ Lock(t)
    /\ Goto(t, l)
    /\ UNCHANGED <<items, locals, history, done, nOps>>

call_empty(t) == Call(t, NULL, "empty_244")

call_push_back(t) == \E v \in Values : Call(t, v, "push_266")

call_pop_front(t) == Call(t, NULL, "pop_252")

call_remove(t) == \E v \in Values : Call(t, v, "remove_284")

call_size(t) == Call(t, NULL, "size_275")

call_visit_all(t) == Call(t, NULL, "visit_49")

\* ------------------------------------------------- empty (lines 241-245)
\* return list<T>::empty();  -- no Lock(), no Unlock().
empty_244(t) ==
    /\ pc[t] = "empty_244"
    /\ \E e \in list_empty(t) :
          Return(t, [Result(t, "empty") EXCEPT !.is_empty = e])
    /\ UNCHANGED <<items, safelist_mutex, history, nOps>>

\* --------------------------------------------- push_back (lines 263-269)
push_266(t) ==
    /\ pc[t] = "push_266"
    /\ LockGoto(t, "push_267")

\* Mutant of push_267: the element is inserted at the front.
push_267_front(t) ==
    /\ pc[t] = "push_267"
    /\ items' = <<arg[t]>> \o items
    /\ pushLog' = IF recording
                  THEN Append(pushLog, [thread |-> t, val |-> arg[t]])
                  ELSE pushLog
    /\ Goto(t, "push_268")
    /\ UNCHANGED <<safelist_mutex, locals, popLog, nRemoved, recording,
                   done, nOps>>

push_267(t) ==
    /\ pc[t] = "push_267"
    /\ items' = list_push_back(items, arg[t])
    /\ pushLog' = IF recording
                  THEN Append(pushLog, [thread |-> t, val |-> arg[t]])
                  ELSE pushLog
    /\ Goto(t, "push_268")
    /\ UNCHANGED <<safelist_mutex, locals, popLog, nRemoved, recording,
                   done, nOps>>

\* Mutant of push_268: push_back returns without Unlock().
push_268_no_unlock(t) ==
    /\ pc[t] = "push_268"
    /\ Return(t, Result(t, "push_back"))
    /\ UNCHANGED <<items, safelist_mutex, history, nOps>>

push_268(t) ==
    /\ pc[t] = "push_268"
    /\ UnlockReturn(t, "push_back")

\* -------------------------------------------------- size (lines 271-279)
size_275(t) ==
    /\ pc[t] = "size_275"
    /\ LockGoto(t, "size_276")

\* Mutant of size_276: reading the size empties the list.
size_276_clear(t) ==
    /\ pc[t] = "size_276"
    /\ size' = [size EXCEPT ![t] = Len(items)]
    /\ items' = <<>>
    /\ Goto(t, "size_277")
    /\ UNCHANGED <<safelist_mutex, arg, itr, ret_val, is_empty, present,
                   entry, seen, snap, stopped, threw, history, done, nOps>>

size_276(t) ==
    /\ pc[t] = "size_276"
    /\ size' = [size EXCEPT ![t] = Len(items)]
    /\ Goto(t, "size_277")
    /\ UNCHANGED <<items, safelist_mutex, arg, itr, ret_val, is_empty,
                   present, entry, seen, snap, stopped, threw, history,
                   done, nOps>>

size_277(t) ==
    /\ pc[t] = "size_277"
    /\ UnlockReturn(t, "size")

\* ------------------------------------------------ remove (lines 281-287)
remove_284(t) ==
    /\ pc[t] = "remove_284"
    /\ LockGoto(t, "remove_285")

remove_285(t) ==
    /\ pc[t] = "remove_285"
    /\ items' = list_remove(items, arg[t])
    /\ nRemoved' = IF recording
                   THEN nRemoved + Len(items) - Len(list_remove(items, arg[t]))
                   ELSE nRemoved
    /\ Goto(t, "remove_286")
    /\ UNCHANGED <<safelist_mutex, locals, pushLog, popLog, recording, done,
                   nOps>>

remove_286(t) ==
    /\ pc[t] = "remove_286"
    /\ UnlockReturn(t, "remove")

\* --------------------------------------------- pop_front (lines 247-261)
pop_252(t) ==
    /\ pc[t] = "pop_252"
    /\ LockGoto(t, "pop_253")

\* if(!this->empty()): SafeList<T>::empty(), called with the lock held.
\* On an empty list the branch is skipped and ret_val stays NULL.
pop_253(t) ==
    /\ pc[t] = "pop_253"
    /\ \E e \in list_empty(t) :
          IF e THEN Goto(t, "pop_259") ELSE Goto(t, "begin_80")
    /\ UNCHANGED <<items, safelist_mutex, locals, history, done, nOps>>

\* itr = begin(): SafeList<T>::begin() (lines 77-87) locks again.
begin_80(t) ==
    /\ pc[t] = "begin_80"
    /\ LockGoto(t, "begin_84")

\* Mutant of begin_84: the iterator is set to the last element.
begin_84_back(t) ==
    /\ pc[t] = "begin_84"
    /\ itr' = [itr EXCEPT ![t] = Len(items)]
    /\ Goto(t, "begin_85")
    /\ UNCHANGED <<items, safelist_mutex, arg, ret_val, size, is_empty,
                   present, entry, seen, snap, stopped, threw, history,
                   done, nOps>>

begin_84(t) ==
    /\ pc[t] = "begin_84"
    /\ itr' = [itr EXCEPT ![t] = 1]
    /\ Goto(t, "begin_85")
    /\ UNCHANGED <<items, safelist_mutex, arg, ret_val, size, is_empty,
                   present, entry, seen, snap, stopped, threw, history,
                   done, nOps>>

begin_85(t) ==
    /\ pc[t] = "begin_85"
    /\ Unlock(t)
    /\ Goto(t, "pop_256")
    /\ UNCHANGED <<items, locals, history, done, nOps>>

\* ret_val = *itr;
pop_256(t) ==
    /\ pc[t] = "pop_256"
    /\ \E v \in Deref(items, itr[t]) : ret_val' = [ret_val EXCEPT ![t] = v]
    /\ Goto(t, "pop_257")
    /\ UNCHANGED <<items, safelist_mutex, arg, itr, size, is_empty, present,
                   entry, seen, snap, stopped, threw, history, done, nOps>>

\* list<T>::erase(itr);
pop_257(t) ==
    /\ pc[t] = "pop_257"
    /\ \E s \in list_erase(items, itr[t]) : items' = s
    /\ present' = [present EXCEPT ![t] = TRUE]
    /\ popLog' = IF recording THEN Append(popLog, ret_val[t]) ELSE popLog
    /\ Goto(t, "pop_259")
    /\ UNCHANGED <<safelist_mutex, arg, itr, ret_val, size, is_empty, entry,
                   seen, snap, stopped, threw, pushLog, nRemoved, recording,
                   done, nOps>>

\* Unlock(); return ret_val;
pop_259(t) ==
    /\ pc[t] = "pop_259"
    /\ UnlockReturn(t, "pop_front")

\* ----------------------------------------------- visit_all (lines 47-56)
\* Mutant of visit_49: the traversal starts without Lock().
visit_49_no_lock(t) ==
    /\ pc[t] = "visit_49"
    /\ snap' = [snap EXCEPT ![t] = items]
    /\ Goto(t, "visit_50_init")
    /\ UNCHANGED <<items, safelist_mutex, arg, itr, ret_val, size, is_empty,
                   present, entry, seen, stopped, threw, history, done, nOps>>

visit_49(t) ==
    /\ pc[t] = "visit_49"
    /\ Lock(t)
    /\ snap' = [snap EXCEPT ![t] = items]
    /\ Goto(t, "visit_50_init")
    /\ UNCHANGED <<items, arg, itr, ret_val, size, is_empty, present,
                   entry, seen, stopped, threw, history, done, nOps>>

\* for (itr = list<T>::begin(); ...
visit_50_init(t) ==
    /\ pc[t] = "visit_50_init"
    /\ itr' = [itr EXCEPT ![t] = 1]
    /\ Goto(t, "visit_50")
    /\ UNCHANGED <<items, safelist_mutex, arg, ret_val, size, is_empty,
                   present, entry, seen, snap, stopped, threw, history,
                   done, nOps>>

\* ... itr != list<T>::end(); ...
visit_50(t) ==
    /\ pc[t] = "visit_50"
    /\ IF itr[t] # Len(items) + 1
       THEN Goto(t, "visit_52")
       ELSE Goto(t, "visit_55")
    /\ UNCHANGED <<items, safelist_mutex, locals, history, done, nOps>>

\* Mutant of visit_52: the visitor's result does not end the loop.
visit_52_no_break(t) ==
    /\ pc[t] = "visit_52"
    /\ \E v \in Deref(items, itr[t]), b \in BOOLEAN :
          /\ seen' = [seen EXCEPT ![t] = Append(@, v)]
          /\ stopped' = [stopped EXCEPT ![t] = @ \/ ~b]
          /\ itr' = [itr EXCEPT ![t] = @ + 1]
          /\ Goto(t, "visit_50")
    /\ UNCHANGED <<items, safelist_mutex, arg, ret_val, size, is_empty,
                   present, entry, snap, threw, history, done, nOps>>

\* if (!visitor(*itr)) break;  ... ++itr)     -- the visitor returns b
visit_52(t) ==
    /\ pc[t] = "visit_52"
    /\ \E v \in Deref(items, itr[t]), b \in BOOLEAN :
          /\ seen' = [seen EXCEPT ![t] = Append(@, v)]
          /\ IF b
             THEN /\ itr' = [itr EXCEPT ![t] = @ + 1]
                  /\ Goto(t, "visit_50")
                  /\ UNCHANGED stopped
             ELSE /\ stopped' = [stopped EXCEPT ![t] = TRUE]
                  /\ Goto(t, "visit_55")
                  /\ UNCHANGED itr
    /\ UNCHANGED <<items, safelist_mutex, arg, ret_val, size, is_empty,
                   present, entry, snap, threw, history, done, nOps>>

\* The visitor throws: nothing in visit_all catches, so the exception leaves
\* visit_all from line 52 and line 55 is not executed.
visit_52_throw(t) ==
    /\ pc[t] = "visit_52"
    /\ \E v \in Deref(items, itr[t]) :
          Return(t, [Result(t, "visit_all") EXCEPT !.threw = TRUE])
    /\ UNCHANGED <<items, safelist_mutex, history, nOps>>

\* Mutant of visit_55: visit_all returns without Unlock().
visit_55_no_unlock(t) ==
    /\ pc[t] = "visit_55"
    /\ Return(t, Result(t, "visit_all"))
    /\ UNCHANGED <<items, safelist_mutex, history, nOps>>

visit_55(t) ==
    /\ pc[t] = "visit_55"
    /\ UnlockReturn(t, "visit_all")

\* ----------------------------------------------------- specifications
Next ==
    \E t \in Threads :
        \/ call_empty(t)
        \/ call_push_back(t)
        \/ call_pop_front(t)
        \/ call_remove(t)
        \/ call_size(t)
        \/ call_visit_all(t)
        \/ empty_244(t)
        \/ push_266(t)
        \/ push_267(t)
        \/ push_268(t)
        \/ size_275(t)
        \/ size_276(t)
        \/ size_277(t)
        \/ remove_284(t)
        \/ remove_285(t)
        \/ remove_286(t)
        \/ pop_252(t)
        \/ pop_253(t)
        \/ begin_80(t)
        \/ begin_84(t)
        \/ begin_85(t)
        \/ pop_256(t)
        \/ pop_257(t)
        \/ pop_259(t)
        \/ visit_49(t)
        \/ visit_50_init(t)
        \/ visit_50(t)
        \/ visit_52(t)
        \/ visit_55(t)

\* Every visitor returns normally.
Spec == Init /\ [][Next]_vars

\* The statements of an operation that thread t has called.
ThreadStep(t) ==
    \/ empty_244(t)
    \/ push_266(t) \/ push_267(t) \/ push_268(t)
    \/ size_275(t) \/ size_276(t) \/ size_277(t)
    \/ remove_284(t) \/ remove_285(t) \/ remove_286(t)
    \/ pop_252(t) \/ pop_253(t)
    \/ begin_80(t) \/ begin_84(t) \/ begin_85(t)
    \/ pop_256(t) \/ pop_257(t) \/ pop_259(t)
    \/ visit_49(t) \/ visit_50_init(t) \/ visit_50(t) \/ visit_52(t)
    \/ visit_55(t)

\* Fair scheduling: a thread whose next statement can be executed, and stays
\* so, executes it.  Callers need not call.
FairSpec == Spec /\ \A t \in Threads : WF_vars(ThreadStep(t))

\* Visitors may also throw.
NextThrow == Next \/ \E t \in Threads : visit_52_throw(t)

SpecThrow == Init /\ [][NextThrow]_vars

\* Threads that only push and pop, with the history of what they pushed and
\* popped.
NextPushPop ==
    \E t \in Threads :
        \/ call_push_back(t)
        \/ call_pop_front(t)
        \/ push_266(t)
        \/ push_267(t)
        \/ push_268(t)
        \/ pop_252(t)
        \/ pop_253(t)
        \/ begin_80(t)
        \/ begin_84(t)
        \/ begin_85(t)
        \/ pop_256(t)
        \/ pop_257(t)
        \/ pop_259(t)

SpecPushPop == InitRecording /\ [][NextPushPop]_vars

\* The operations a visitor can call on the list it is passed elements of.
VisitorOps == {"push_back", "pop_front", "remove"}

\* The list after operation o with argument x (lines 247-287).
VisitorCall(o, x) ==
    CASE o = "push_back" -> {list_push_back(items, x)}
      [] o = "pop_front" -> IF items = <<>> THEN {items}
                            ELSE list_erase(items, 1)
      [] o = "remove" -> {list_remove(items, x)}

\* The positions of the list that operation o with argument x erases.
Erased(o, x) ==
    CASE o = "push_back" -> {}
      [] o = "pop_front" -> IF items = <<>> THEN {} ELSE {1}
      [] o = "remove" -> {j \in 1..Len(items) : items[j] = x}

\* Where a list iterator at position i is once the list has become s: a
\* std::list iterator follows its node, and the iterator of an erased node
\* dangles (0 stands for memory that is no node of the list).
ItrAfter(o, x, i, s) ==
    IF i \in Erased(o, x) \/ ~ValidItr(items, i)
    THEN 0..Len(s)
    ELSE {i - Cardinality({j \in Erased(o, x) : j < i})}

\* if (!visitor(*itr)) break; with a visitor that calls push_back, pop_front
\* or remove on the list before it returns b.  The call locks the mutex the
\* traversal holds (lines 252, 266, 284), which only a recursive mutex
\* allows to the owner, and leaves the hold count as it found it.
visit_52_reentrant(t) ==
    /\ pc[t] = "visit_52"
    /\ nOps < MaxOps
    /\ nOps' = nOps + 1
    /\ ENABLED Lock(t)
    /\ \E v \in Deref(items, itr[t]), o \in VisitorOps, x \in Values,
          b \in BOOLEAN :
          \E s \in VisitorCall(o, x) : \E i \in ItrAfter(o, x, itr[t], s) :
              /\ items' = s
              /\ seen' = [seen EXCEPT ![t] = Append(@, v)]
              /\ done' = [NoneDone EXCEPT
                            !.thread = t, !.op = o,
                            !.entry = HoldCount(t), !.hold = HoldCount(t),
                            !.present = (o = "pop_front" /\ items # <<>>),
                            !.ret_val = IF o = "pop_front" /\ items # <<>>
                                        THEN Head(items) ELSE NULL]
              /\ IF b
                 THEN /\ itr' = [itr EXCEPT ![t] = i + 1]
                      /\ Goto(t, "visit_50")
                      /\ UNCHANGED stopped
                 ELSE /\ itr' = [itr EXCEPT ![t] = i]
                      /\ stopped' = [stopped EXCEPT ![t] = TRUE]
                      /\ Goto(t, "visit_55")
    /\ UNCHANGED <<safelist_mutex, arg, ret_val, size, is_empty, present,
                   entry, snap, threw, history>>

\* Visitors may also call the mutating operations.
NextReentrant == Next \/ \E t \in Threads : visit_52_reentrant(t)

SpecReentrant == Init /\ [][NextReentrant]_vars

\* The statements that call Lock(), and the statement after each.
LockPcs == {"push_266", "size_275", "remove_284", "pop_252", "begin_80",
            "visit_49"}

AfterLock(l) ==
    CASE l = "push_266" -> "push_267"
      [] l = "size_275" -> "size_276"
      [] l = "remove_284" -> "remove_285"
      [] l = "pop_252" -> "pop_253"
      [] l = "begin_80" -> "begin_84"
      [] l = "visit_49" -> "visit_50_init"

\* The statements that call Unlock().
UnlockPcs == {"push_268", "size_277", "remove_286", "begin_85", "pop_259",
              "visit_55"}

\* pthread_mutex_lock returns an error (for a recursive mutex, EAGAIN or
\* EINVAL): the mutex is as it was, Lock() returns false, and the caller,
\* which does not look at the result, goes on to its next statement.
lock_fails(t) ==
    /\ pc[t] \in LockPcs
    /\ Goto(t, AfterLock(pc[t]))
    /\ snap' = [snap EXCEPT ![t] = IF pc[t] = "visit_49" THEN items ELSE @]
    /\ UNCHANGED <<items, safelist_mutex, arg, itr, ret_val, size, is_empty,
                   present, entry, seen, stopped, threw, history, done, nOps>>

\* Lock() may also fail, in every operation but the traversal (whose
\* Lock() call is ignored in the same way at line 49).
NextLockFail ==
    \/ NextPushPop
    \/ \E t \in Threads :
        \/ call_empty(t)
        \/ call_remove(t)
        \/ call_size(t)
        \/ empty_244(t)
        \/ size_275(t)
        \/ size_276(t)
        \/ size_277(t)
        \/ remove_284(t)
        \/ remove_285(t)
        \/ remove_286(t)
        \/ lock_fails(t)

SpecLockFail == Init /\ [][NextLockFail]_vars

\* Threads that only push and remove, with the history of what they pushed
\* and how many elements were removed.
NextPushRemove ==
    \E t \in Threads :
        \/ call_push_back(t)
        \/ call_remove(t)
        \/ push_266(t)
        \/ push_267(t)
        \/ push_268(t)
        \/ remove_284(t)
        \/ remove_285(t)
        \/ remove_286(t)

SpecPushRemove == InitRecording /\ [][NextPushRemove]_vars

\* ------------------------------------------------------------ helpers
Count(s, v) == Cardinality({i \in 1..Len(s) : s[i] = v})

PushedVals == [i \in 1..Len(pushLog) |-> pushLog[i].val]

IsPrefix(s, r) == Len(s) <= Len(r) /\ s = SubSeq(r, 1, Len(s))

\* The statements of empty(), size() and visit_all().
ReadOnlyPcs ==
    {"empty_244", "size_275", "size_276", "size_277", "visit_49",
     "visit_50_init", "visit_50", "visit_52", "visit_55"}

\* The statements of pop_front between its Lock() and its Unlock().
PopSection ==
    {"pop_253", "begin_80", "begin_84", "begin_85", "pop_256", "pop_257",
     "pop_259"}

\* The statements of visit_all between its Lock() and its Unlock().
VisitSection == {"visit_50_init", "visit_50", "visit_52", "visit_55"}

\* --------------------------------------------------------------- claims
\* C1: a thread reads or mutates items only while it holds the lock; in
\* particular empty() holds the lock when it inspects items.
C1_AccessOnlyUnderLock ==
    \A t \in Threads : pc[t] \in AccessPcs => safelist_mutex.owner = t

\* C2: operations are linearizable: a thread accesses items only while no
\* other thread is in the middle of an operation, and what empty() returns
\* is the emptiness of items before or after the operation it overlaps.
C2_Linearizable ==
    [][\A t \in Threads :
          /\ (pc[t] \in AccessPcs /\ pc'[t] # pc[t]) =>
                safelist_mutex.owner \in {NoThread, t}
          /\ (pc[t] = "empty_244" /\ pc'[t] = "idle") =>
                \E u \in Threads : \E s \in {items} \cup AfterWrite(u) :
                    done'.is_empty = (s = <<>>)]_vars

\* C3: pushes by several threads followed by draining with pop_front yield
\* exactly the pushed values: every value was returned by pop_front as often
\* as it was pushed, less the copies still in the list, so that once the
\* list is drained the popped values are the pushed values, none lost, none
\* twice, none that was never pushed.
C3_DrainYieldsPushed ==
    /\ \A v \in Values :
          Count(PushedVals, v) = Count(popLog, v) + Count(items, v)
    /\ \A i \in 1..Len(popLog) : Count(PushedVals, popLog[i]) > 0
    /\ items = <<>> => Len(popLog) = Len(pushLog)

\* Two threads have pushed different values and the list has been drained.
C3_Witness ==
    /\ items = <<>>
    /\ \A t \in Threads : pc[t] = "idle"
    /\ Len(popLog) = Len(pushLog)
    /\ \E i, j \in 1..Len(pushLog) :
          /\ pushLog[i].thread # pushLog[j].thread
          /\ pushLog[i].val # pushLog[j].val

\* C4: pop_front checks for emptiness and removes the front inside one lock
\* acquisition: from its check to its Unlock() the thread owns the mutex, it
\* dereferences and erases only the front of a non-empty list, what it
\* returns is the element it erases, a caller that gets no element leaves an
\* empty list, and as many callers got an element as elements have left.
C4_PopFrontAtomic ==
    /\ \A t \in Threads :
          /\ pc[t] \in PopSection => safelist_mutex.owner = t
          /\ pc[t] \in {"pop_256", "pop_257"} =>
                items # <<>> /\ itr[t] = 1
          /\ pc[t] = "pop_257" => ret_val[t] = Head(items)
          /\ (pc[t] = "pop_259" /\ ~present[t]) => items = <<>>
    /\ Len(popLog) + Len(items) = Len(pushLog)

\* One thread has taken the only element and still holds the lock while
\* another thread's pop_front waits for it.
C4_Witness ==
    \E t, u \in Threads :
        /\ t # u
        /\ pc[t] = "pop_259" /\ present[t]
        /\ pc[u] = "pop_252"
        /\ Len(pushLog) = 1 /\ items = <<>>

\* C5: FIFO: the values pushed, in the order they were pushed, are the
\* values popped, in the order they were popped, followed by the list from
\* front to back.
C5_Fifo == PushedVals = popLog \o items

\* One thread pushed two different values, nothing else happened, and two
\* pops then returned them in the order pushed.
C5_Witness ==
    /\ Len(pushLog) = 2
    /\ pushLog[1].thread = pushLog[2].thread
    /\ pushLog[1].val # pushLog[2].val
    /\ popLog = PushedVals
    /\ nOps = 4
    /\ done.op = "pop_front" /\ done.present
    /\ done.ret_val = pushLog[2].val

\* C6: what pop_front returns on an empty list differs from everything it
\* has returned for an element that was present.
C6_AbsentDistinguishable ==
    (done.op = "pop_front" /\ ~done.present) =>
        \A i \in 1..Len(popLog) : popLog[i] # done.ret_val

\* C7: when visit_all returns after a visitor that returned normally, the
\* calling thread holds the lock as often as when it called, and a lock it
\* did not hold before is free for the other threads.
C7_VisitReleasesLock ==
    [][\A t \in Threads :
          (pc[t] = "visit_55" /\ pc'[t] = "idle") =>
              /\ done'.hold = entry[t]
              /\ entry[t] = 0 => safelist_mutex' = FreeMutex]_vars

\* A visit_all that stopped early has returned and another thread has since
\* acquired the lock.
C7_Witness ==
    /\ done.op = "visit_all" /\ done.stopped /\ done.hold = 0
    /\ \E u \in Threads \ {done.thread} : safelist_mutex.owner = u

\* C8: a visit_all left by an exception of the visitor has released the
\* lock: the thread holds it as often as when it called.
C8_ThrowReleasesLock ==
    (done.op = "visit_all" /\ done.threw) => done.hold = done.entry

\* C9: during a traversal the thread owns the mutex through one
\* acquisition, items are what they were when it acquired the lock, and
\* what the visitor has seen is a prefix of them.
C9_TraversalUnderOneLock ==
    \A t \in Threads :
        pc[t] \in VisitSection =>
            /\ safelist_mutex = [owner |-> t, count |-> entry[t] + 1]
            /\ items = snap[t]
            /\ IsPrefix(seen[t], snap[t])

\* A traversal has visited an element while another thread's push_back,
\* pop_front or remove waits for the lock.
C9_Witness ==
    \E t, u \in Threads :
        /\ t # u
        /\ pc[t] = "visit_52" /\ Len(seen[t]) >= 1
        /\ pc[u] \in {"push_266", "pop_252", "remove_284"}

\* C10: the visitor is passed the elements from the front, each once, in
\* order; after the first false the traversal is over and no later element
\* is passed; without a false every element is passed exactly once.
C10_VisitOrderAndStop ==
    \A t \in Threads :
        pc[t] \in {"visit_50", "visit_52", "visit_55"} =>
            /\ seen[t] = SubSeq(items, 1, Len(seen[t]))
            /\ Len(seen[t]) = IF stopped[t] THEN itr[t] ELSE itr[t] - 1
            /\ stopped[t] => pc[t] = "visit_55"
            /\ (pc[t] = "visit_55" /\ ~stopped[t]) => seen[t] = items

\* A traversal of three elements has ended at the second, on a false.
C10_Witness ==
    \E t \in Threads :
        /\ pc[t] = "visit_55" /\ stopped[t]
        /\ Len(items) = 3 /\ Len(seen[t]) = 2

\* C11: remove(v) deletes every element equal to v and keeps the other
\* elements in their order: the list after line 285 is the list before it
\* without the elements equal to v, none of which is left; without a match
\* the list is unchanged; and remove returns as every call does.
C11_RemoveAllMatches ==
    [][\A t \in Threads :
          (pc[t] = "remove_285" /\ pc'[t] # pc[t]) =>
              LET Keep(x) == x # arg[t] IN
              /\ items' = SelectSeq(items, Keep)
              /\ Count(items', arg[t]) = 0
              /\ Count(items, arg[t]) = 0 => items' = items
              /\ pc'[t] = "remove_286"]_vars

\* A remove has deleted two matches around an element that it kept.
C11_Witness ==
    \E t \in Threads :
        /\ pc[t] = "remove_286"
        /\ nRemoved = 2
        /\ Len(pushLog) = 3
        /\ PushedVals[1] = arg[t] /\ PushedVals[3] = arg[t]
        /\ items = <<PushedVals[2]>>

\* C12: a failed lock acquisition is fatal: no operation reaches a statement
\* that reads or writes the list under its lock, or a statement that
\* unlocks, without holding the lock.
C12_LockFailureFatal ==
    \A t \in Threads :
        pc[t] \in ((AccessPcs \ {"empty_244"}) \cup UnlockPcs) =>
            safelist_mutex.owner = t

\* C13: the lock is re-entrant: pop_front, which holds the lock from line
\* 252, is never blocked at the Lock() of begin() (line 80), and holds the
\* lock twice inside begin().
C13_ReentrantLock ==
    \A t \in Threads :
        /\ pc[t] = "begin_80" =>
              /\ safelist_mutex = [owner |-> t, count |-> entry[t] + 1]
              /\ ENABLED begin_80(t)
        /\ pc[t] \in {"begin_84", "begin_85"} =>
              safelist_mutex = [owner |-> t, count |-> entry[t] + 2]

\* A thread is inside begin(), called from pop_front, holding the lock twice
\* while another thread waits for it.
C13_Witness ==
    \E t \in Threads : \E u \in Threads \ {t} :
        /\ pc[t] = "begin_84"
        /\ HoldCount(t) = 2
        /\ pc[u] \in LockPcs

\* C14: empty() and size() agree on one state of the list: when empty()
\* returns while another thread's size() has read the size and still holds
\* the lock (so both have read the same list), empty() has returned true
\* if and only if size() is returning 0.
C14_EmptyIffSizeZero ==
    [][\A t \in Threads : \A u \in Threads \ {t} :
          (/\ pc[t] = "empty_244"
           /\ pc'[t] = "idle"
           /\ pc[u] = "size_277") =>
              /\ done'.op = "empty"
              /\ done'.is_empty <=> (size[u] = 0)
              /\ size[u] = Len(items)]_vars

\* empty() has returned false while a size() that read 2 holds the lock.
C14_Witness ==
    \E u \in Threads :
        /\ done.op = "empty"
        /\ done.thread # u
        /\ ~done.is_empty
        /\ pc[u] = "size_277"
        /\ size[u] = 2

\* C15: no interleaving deadlocks (while an operation is in progress some
\* thread can execute its next statement), and under fair scheduling every
\* operation that has been called returns.
C15_OperationsReturn ==
    /\ []((\E t \in Threads : pc[t] # "idle") =>
             \E u \in Threads : ENABLED ThreadStep(u))
    /\ \A t \in Threads : (pc[t] # "idle") ~> (pc[t] = "idle")

\* One thread waits at a Lock() for the lock that a traversal on another
\* thread holds.
C15_Witness ==
    \E t \in Threads : \E u \in Threads \ {t} :
        /\ pc[t] \in LockPcs
        /\ pc[u] = "visit_52"
        /\ safelist_mutex.owner = u
        /\ ~ENABLED ThreadStep(t)

\* C16: pop_front on a non-empty list removes exactly the front element and
\* returns it: between its check and its return the list changes only at
\* line 257, where it loses its head, which is the value returned, and is
\* one element shorter with the rest as it was; pop_front that finds the
\* list empty leaves it empty.
C16_PopFrontRemovesFront ==
    [][\A t \in Threads :
          /\ (pc[t] \in PopSection /\ items' # items) =>
                pc[t] = "pop_257" /\ pc'[t] = "pop_259"
          /\ (pc[t] = "pop_257" /\ pc'[t] = "pop_259") =>
                /\ items # <<>>
                /\ items' = Tail(items)
                /\ Len(items') = Len(items) - 1
                /\ ret_val[t] = Head(items)
                /\ present'[t]
          /\ (pc[t] = "pop_253" /\ pc'[t] = "pop_259") =>
                items = <<>> /\ items' = <<>> /\ ~present'[t]
          /\ (pc[t] = "pop_253" /\ pc'[t] = "begin_80") => items # <<>>
          /\ (pc[t] = "pop_259" /\ pc'[t] = "idle") =>
                /\ done'.op = "pop_front"
                /\ done'.ret_val = ret_val[t]
                /\ done'.present = present[t]
                /\ ~present[t] => items' = <<>>]_vars

\* pop_front has taken the front of a list of three and is about to return
\* it; the other two elements are left in their order.
C16_Witness ==
    \E t \in Threads :
        /\ pc[t] = "pop_259"
        /\ present[t]
        /\ ret_val[t] = MaxVal
        /\ items = <<NULL, MaxVal>>

\* C17: empty(), size() and visit_all() leave the list as it is: no
\* statement of theirs changes items, and from the Lock() of size() or
\* visit_all() to its return no other thread changes items either.
C17_ReadOnlyOperations ==
    [][\A t \in Threads :
          /\ (pc[t] \in ReadOnlyPcs /\ pc'[t] # pc[t]) => items' = items
          /\ pc[t] \in ({"size_276", "size_277"} \cup VisitSection) =>
                items' = items]_vars

\* A size() has returned 2, and a traversal has then passed both elements of
\* the list to the visitor and is about to return.
C17_Witness ==
    \E t \in Threads :
        /\ pc[t] = "visit_55"
        /\ seen[t] = items
        /\ Len(items) = 2
        /\ done.op = "size" /\ done.size = 2

C19_VisitorReentrancy ==
    \A t \in Threads :
        (pc[t] = "visit_52" /\ nOps < MaxOps) =>
            \A x \in Values :
                /\ ENABLED (/\ visit_52_reentrant(t)
                            /\ done'.op = "push_back"
                            /\ items' = list_push_back(items, x)
                            /\ pc'[t] \in VisitSection
                            /\ safelist_mutex' = safelist_mutex)
                /\ ENABLED (/\ visit_52_reentrant(t)
                            /\ done'.op = "remove"
                            /\ items' = list_remove(items, x)
                            /\ pc'[t] \in VisitSection
                            /\ safelist_mutex' = safelist_mutex)
                /\ ENABLED (/\ visit_52_reentrant(t)
                            /\ done'.op = "pop_front"
                            /\ items # <<>> => items' = Tail(items)
                            /\ pc'[t] \in VisitSection
                            /\ safelist_mutex' = safelist_mutex)

\* A visitor has popped the front of the list during a traversal that is
\* still in progress, with the lock held once.
C19_Witness ==
    \E t \in Threads :
        /\ pc[t] = "visit_50"
        /\ done.thread = t /\ done.op = "pop_front" /\ done.present
        /\ done.entry = 1 /\ done.hold = 1
        /\ Len(items) < Len(snap[t])
        /\ safelist_mutex = [owner |-> t, count |-> 1]

\* C20: per-thread order: for values x and y, each pushed once, with x
\* pushed before y by the same thread, x is nearer the front than y while
\* both are in the list, and y is returned by pop_front only after x.
C20_PerThreadOrder ==
    \A i, j \in 1..Len(pushLog) :
        (/\ i < j
         /\ pushLog[i].thread = pushLog[j].thread
         /\ Count(PushedVals, pushLog[i].val) = 1
         /\ Count(PushedVals, pushLog[j].val) = 1) =>
            /\ \A a, b \in 1..Len(items) :
                  (items[a] = pushLog[i].val /\ items[b] = pushLog[j].val)
                      => a < b
            /\ \A b \in 1..Len(popLog) :
                  popLog[b] = pushLog[j].val =>
                      \E a \in 1..(b - 1) : popLog[a] = pushLog[i].val
            /\ Count(items, pushLog[i].val) = 1 =>
                  Count(popLog, pushLog[j].val) = 0

\* One thread pushed x and then y; another thread's pop_front has returned
\* x, and y is still in the list.
C20_Witness ==
    /\ Len(pushLog) = 2
    /\ pushLog[1].thread = pushLog[2].thread
    /\ pushLog[1].val # pushLog[2].val
    /\ popLog = <<pushLog[1].val>>
    /\ items = <<pushLog[2].val>>
    /\ done.op = "pop_front" /\ done.thread # pushLog[1].thread
    /\ done.ret_val = pushLog[1].val

====
